---- MODULE Spec2Model ----
(***************************************************************************)
(* Model of package serial (serial.go): the SerialPort handle, its         *)
(* bytes.Buffer receive buffer, the readSerialPort / processSerialPort     *)
(* goroutines started by Open, and the polling goroutine and select of     *)
(* WaitForRegexTimeout.                                                    *)
(*                                                                         *)
(* One caller goroutine issues the API calls one after the other; the      *)
(* goroutines started by Open and by WaitForRegexTimeout interleave with   *)
(* it statement by statement.  An unrecovered panic in any goroutine ends  *)
(* the process: crashed becomes TRUE and nothing runs afterwards.          *)
(*                                                                         *)
(* Next holds every operation.  The properties are checked under scenario  *)
(* specifications (SpecBuf, SpecApi, SpecWait, SpecReopen, SpecSend, and   *)
(* the fair FairClose and FairWait) that give the                          *)
(* caller a part of the API and their own budgets of opens, waits and      *)
(* received bytes.  Open and Close are taken as one step each: every run   *)
(* of the model is a run of the program.                                   *)
(***************************************************************************)
EXTENDS Integers, Sequences, FiniteSets

\* ------------------------------------------------------------------ bounds
\* Largest n returned by one port.Read (the code allows up to 256).
MaxChunk == 2
\* Budgets of Spec: successful Open calls, WaitForRegexTimeout calls on an open
\* handle, bytes delivered by the transport.
MaxOpens == 1
MaxWaits == 1
MaxRecv == 1
\* Budgets of SpecBuf.
BufOpens == 1
BufRecv == 2
\* Budgets of SpecApi.
ApiOpens == 1
ApiRecv == 1
\* Budgets of SpecWait.
WaitOpens == 1
WaitWaits == 2
WaitRecv == 2
\* Budgets of SpecReopen.
ReOpens == 2
ReRecv == 1
\* Budgets of FairClose.
CloseOpens == 1
CloseRecv == 2
\* Budgets of FairWait.
LiveOpens == 1
LiveWaits == 1
LiveRecv == 2
\* Budget of SpecSend, and the largest file tried, in whole chunks of q bytes.
SendOpens == 1
MaxBlocks == 2

\* --------------------------------------------------------------- constants
EOL_DEFAULT == 10
\* len of the slice New() hands to bytes.NewBuffer: the buffer's first contents.
NewBuffLen == 256
\* q := 512 in SendFile: the most bytes handed to one transport write.
q == 512

\* Bytes the transport delivers: '\n', '\r', 'a'.
RxBytes == {10, 13, 97}
\* Arguments tried for EOL(c): '\n' and 'a'.
EolBytes == {10, 97}
\* Arguments tried for Open(name, baud).
PortArgs == { <<"ttyA", 9600>>, <<"ttyB", 115200>> }
\* Arguments tried for WaitForRegexTimeout: `.`, and `(`, which does not compile.
Patterns == {".", "("}
\* Arguments tried for Write / Print / Println.
Datas == { <<97>> }
\* Arguments tried for Printf: a format without verbs, and "%d" with one argument.
\* File sizes tried for SendFile: around every multiple of q, 0 included.
FileSizes == { n \in 0..(MaxBlocks * q + 1) : n % q \in {0, 1, q - 1} }
PrintfCalls == { [format |-> <<97>>, args |-> <<>>], [format |-> <<37, 100>>, args |-> <<1>>] }

\* Goroutine slots: one reader and one assembler per successful Open, one poller
\* per WaitForRegexTimeout call that got past its checks; enough for any budget.
Sessions == 1..(MaxOpens + BufOpens + ApiOpens + WaitOpens + ReOpens + CloseOpens + LiveOpens
                 + SendOpens)
Waits == 1..(MaxWaits + WaitWaits + LiveWaits)
Chunks == UNION { [1..n -> RxBytes] : n \in 0..MaxChunk }

VARIABLES
    lim,                                         \* the budgets of the specification
    portIsOpen, name, baud, eol, port, rxChar,   \* SerialPort fields
    arr, blen, off,                              \* sp.buff: backing array, len(buf), off
    chanClosed, portClosed,                      \* times each channel / transport was closed
    nOpens,
    rpc, rbuf, rm, rch,                          \* readSerialPort goroutines
    apc, ach,                                    \* processSerialPort goroutines
    nWaits, ppc, pat, timeExpired, c1,           \* WaitForRegexTimeout pollers
    mainPc, curWait, timerFired,                 \* the caller goroutine
    crashed,
    last,                                        \* what the API call just made returned and did
    received, consumed,                          \* the session's byte stream, in and out
    raced,                                       \* a read met a half-done sp.buff.Write
    plines, wdropped, dataFirst,                 \* the pending WaitForRegexTimeout call
    pollsAfter,
    fileSize, sentBytes, sent                    \* SendFile: len(file), sentBytes, writes issued

spVars == <<lim, portIsOpen, name, baud, port, rxChar, nOpens>>
bufVars == <<arr, blen, off>>
closeVars == <<chanClosed, portClosed>>
readerVars == <<rpc, rbuf, rm, rch>>
asmVars == <<apc, ach>>
pollVars == <<nWaits, ppc, pat, timeExpired, c1>>
selVars == <<mainPc, curWait, timerFired>>
histVars == <<received, consumed, raced>>
waitGhost == <<plines, wdropped, dataFirst, pollsAfter>>
sendVars == <<fileSize, sentBytes, sent>>

vars == <<spVars, eol, bufVars, closeVars, readerVars, asmVars, pollVars, selVars,
          crashed, last, histVars, waitGhost, sendVars>>

\* ------------------------------------------------------------ bytes.Buffer
\* The backing array beyond what was ever written holds the zeros of make().
ArrAt(a, i) == IF i <= Len(a) THEN a[i] ELSE 0

\* b.buf[b.off:], the unread bytes.
UnreadOf(a, o, l) == [i \in 1..(IF l > o THEN l - o ELSE 0) |-> ArrAt(a, o + i)]

Unread == UnreadOf(arr, off, blen)

\* copy(b.buf[m:], p) with len(b.buf) = l: the array after the copy.
CopyAt(a, m, l, p) ==
    LET k == IF l - m < Len(p) THEN l - m ELSE Len(p)
        hi == IF Len(a) > m + k THEN Len(a) ELSE m + k
    IN [i \in 1..hi |-> IF i > m /\ i <= m + k THEN p[i - m] ELSE ArrAt(a, i)]

\* No readSerialPort goroutine is between the two halves of sp.buff.Write.
NoWriteInFlight == \A s \in Sessions : rpc[s] # "copy"

\* A call that reads sp.buff: nothing orders it with a Write that is half done.
Races == portIsOpen /\ ~NoWriteInFlight

IndexByte(s, c) ==
    IF \E i \in 1..Len(s) : s[i] = c
    THEN CHOOSE i \in 1..Len(s) : s[i] = c /\ \A j \in 1..(i - 1) : s[j] # c
    ELSE 0

\* bytes.Buffer.ReadString: without the delimiter it still hands out, and
\* removes, everything that is buffered, and reports io.EOF.
ReadString(u, delim) ==
    LET i == IndexByte(u, delim)
    IN IF i = 0
       THEN [line |-> u, err |-> "EOF"]
       ELSE [line |-> SubSeq(u, 1, i), err |-> ""]

removeEOL(line) == SelectSeq(line, LAMBDA b : b # 13 /\ b # 10)

\* A ReadLine that splits on '\n' whatever EOL() has set.
C12_AlwaysDefault(e) == EOL_DEFAULT

\* The delimiter ReadLine hands to ReadString: sp.eol as it is when ReadLine runs.
LineDelim(e) == e

\* ReadLine without its check of sp.portIsOpen.
C5_ReadLineUnchecked(isOpen) == TRUE

ReadLineOpen(isOpen) == isOpen

\* ReadLine: the returned text, the error, and the bytes taken from the buffer.
ReadLineRes(isOpen, u, delim) ==
    IF ReadLineOpen(isOpen)
    THEN LET r == ReadString(u, delim)
         IN [val |-> IF r.err = "" THEN removeEOL(r.line) ELSE <<>>,
             err |-> r.err, raw |-> r.line]
    ELSE [val |-> <<>>, err |-> "PortNotOpen", raw |-> <<>>]

\* regexp FindAllString(line, -1) for the pattern `.`: every byte but '\n'.
FindAllString(p, line) ==
    LET hits == SelectSeq(line, LAMBDA b : p = "." /\ b # 10)
    IN [i \in 1..Len(hits) |-> <<hits[i]>>]

\* regexp.MustCompile panics on a pattern that does not compile.
Compiles(p) == p # "("

Sprintf(format, args) == IF format = <<37, 100>> THEN <<48 + args[1]>> ELSE format

\* ---------------------------------------------------------------- records
NoCall ==
    [op |-> "none", err |-> "", val |-> <<>>, raw |-> <<>>, pre |-> <<>>, n |-> 0,
     open |-> FALSE, eolAt |-> 0, tx |-> <<>>, txerr |-> "", spawned |-> 0,
     kept |-> TRUE, src |-> 0, lines |-> <<>>, dropped |-> <<>>, fired |-> FALSE,
     dataFirst |-> FALSE]

Call(opName) == [NoCall EXCEPT !.op = opName, !.open = portIsOpen, !.eolAt = eol]

IsPrefix(s, t) == Len(s) <= Len(t) /\ SubSeq(t, 1, Len(s)) = s

Range(s) == { s[i] : i \in 1..Len(s) }

\* The state New() returns, with the budgets of one specification.
InitWith(opens, waits, recv) ==
    /\ lim = [opens |-> opens, waits |-> waits, recv |-> recv]
    /\ portIsOpen = FALSE /\ name = "" /\ baud = 0 /\ eol = EOL_DEFAULT
    /\ port = 0 /\ rxChar = 0
    /\ arr = <<>> /\ blen = NewBuffLen /\ off = 0
    /\ chanClosed = [s \in Sessions |-> 0]
    /\ portClosed = [s \in Sessions |-> 0]
    /\ nOpens = 0
    /\ rpc = [s \in Sessions |-> "none"]
    /\ rbuf = [s \in Sessions |-> <<>>]
    /\ rm = [s \in Sessions |-> 0]
    /\ rch = [s \in Sessions |-> 0]
    /\ apc = [s \in Sessions |-> "none"]
    /\ ach = [s \in Sessions |-> 0]
    /\ nWaits = 0
    /\ ppc = [w \in Waits |-> "none"]
    /\ pat = [w \in Waits |-> ""]
    /\ timeExpired = [w \in Waits |-> FALSE]
    /\ c1 = [w \in Waits |-> <<>>]
    /\ mainPc = "idle" /\ curWait = 0 /\ timerFired = FALSE
    /\ crashed = FALSE
    /\ last = NoCall
    /\ received = <<>> /\ consumed = <<>> /\ raced = FALSE
    /\ plines = <<>> /\ wdropped = <<>> /\ dataFirst = FALSE
    /\ pollsAfter = [w \in Waits |-> 0]
    /\ fileSize = 0 /\ sentBytes = 0 /\ sent = <<>>

Init == InitWith(MaxOpens, MaxWaits, MaxRecv)

Idle == mainPc = "idle" /\ ~crashed

\* What a call left alone: the handle's fields, the goroutines and the unread bytes.
Kept ==
    /\ <<portIsOpen, name, baud, port, rxChar, nOpens>>' = <<portIsOpen, name, baud, port, rxChar, nOpens>>
    /\ <<rpc, apc, chanClosed, portClosed, nWaits>>' = <<rpc, apc, chanClosed, portClosed, nWaits>>
    /\ Unread' = Unread

\* ------------------------------------------------------------ Open / Close
\* openPort is not part of serial.go: it either fails or hands back a transport.
\* Open without its check of sp.portIsOpen.
C6_OpenUnchecked(isOpen) == FALSE

AlreadyOpen(isOpen) == isOpen

\* An Open that stores its argument before it knows whether openPort succeeded.
C19_StoredBeforeCheck(old, new) == new

\* sp.name after openPort has failed: Open returns before it assigns any field.
NameOnFailure(old, new) == old

Open(args) ==
    /\ Idle
    /\ UNCHANGED <<lim, sendVars, eol, closeVars, pollVars, selVars, crashed, waitGhost>>
    /\ IF AlreadyOpen(portIsOpen)
       THEN /\ UNCHANGED <<portIsOpen, name, baud, port, rxChar, nOpens>>
            /\ UNCHANGED <<bufVars, readerVars, asmVars, histVars>>
            /\ last' = [Call("Open") EXCEPT !.err = "AlreadyOpen", !.kept = Kept]
       ELSE \E ok \in BOOLEAN :
            IF ~ok
            THEN /\ name' = NameOnFailure(name, args[1])
                 /\ UNCHANGED <<portIsOpen, baud, port, rxChar, nOpens>>
                 /\ UNCHANGED <<bufVars, readerVars, asmVars, histVars>>
                 /\ last' = [Call("Open") EXCEPT !.err = "OpenError", !.kept = Kept]
            ELSE /\ nOpens < lim.opens
                 /\ nOpens' = nOpens + 1
                 /\ name' = args[1] /\ baud' = args[2]
                 /\ port' = nOpens' /\ portIsOpen' = TRUE
                 /\ off' = 0 /\ blen' = 0 /\ arr' = arr
                 /\ rxChar' = nOpens'
                 /\ rpc' = [rpc EXCEPT ![nOpens'] = "loop"]
                 /\ apc' = [apc EXCEPT ![nOpens'] = "chk"]
                 /\ UNCHANGED <<rbuf, rm, rch, ach>>
                 /\ received' = <<>> /\ consumed' = <<>> /\ raced' = FALSE
                 /\ last' = [Call("Open") EXCEPT !.kept = Kept]

\* Close without its check of sp.portIsOpen.
C7_CloseUnchecked(isOpen) == TRUE

CloseNeeded(isOpen) == isOpen

\* close(sp.rxChar) panics on a nil or an already closed channel.
Close ==
    /\ Idle
    /\ UNCHANGED <<lim, sendVars, eol, bufVars, readerVars, asmVars, pollVars, curWait, timerFired,
                   histVars, waitGhost>>
    /\ IF CloseNeeded(portIsOpen)
       THEN IF rxChar = 0 \/ chanClosed[rxChar] > 0
            THEN /\ portIsOpen' = FALSE
                 /\ crashed' = TRUE
                 /\ mainPc' = "closePanic"
                 /\ chanClosed' = IF rxChar = 0 THEN chanClosed
                                  ELSE [chanClosed EXCEPT ![rxChar] = 2]
                 /\ UNCHANGED <<name, baud, port, rxChar, nOpens, portClosed>>
                 /\ last' = NoCall
            ELSE \E e \in {"", "CloseError"} :
                 /\ portIsOpen' = FALSE
                 /\ chanClosed' = [chanClosed EXCEPT ![rxChar] = 1]
                 /\ portClosed' = [portClosed EXCEPT ![port] = IF @ = 0 THEN 1 ELSE 2]
                 /\ UNCHANGED <<name, baud, port, rxChar, nOpens, crashed, mainPc>>
                 /\ last' = [Call("Close") EXCEPT !.err = e, !.txerr = e, !.kept = Kept]
       ELSE /\ UNCHANGED <<portIsOpen, name, baud, port, rxChar, nOpens, closeVars, crashed,
                           mainPc>>
            /\ last' = [Call("Close") EXCEPT !.kept = Kept]

\* --------------------------------------------------------- readSerialPort
\* for sp.portIsOpen { n, _ := sp.port.Read(rxBuff): a closed transport gives n = 0
\* and an error that is dropped; a read that times out gives n = 0; otherwise n
\* bytes arrive.  With n = 0 the Write and the range loop do nothing.
R_Read(s) ==
    /\ ~crashed /\ rpc[s] = "loop"
    /\ IF ~portIsOpen
       THEN /\ rpc' = [rpc EXCEPT ![s] = "done"]
            /\ UNCHANGED <<rbuf, received>>
       ELSE \E chunk \in Chunks :
            /\ portClosed[port] > 0 => chunk = <<>>
            /\ Len(received) + Len(chunk) <= lim.recv
            /\ received' = received \o chunk
            /\ rbuf' = [rbuf EXCEPT ![s] = chunk]
            /\ rpc' = [rpc EXCEPT ![s] = IF chunk = <<>> THEN "loop" ELSE "reslice"]
    /\ UNCHANGED <<spVars, sendVars, eol, bufVars, closeVars, rm, rch, asmVars, pollVars,
                   selVars, crashed, consumed, raced, waitGhost>>
    /\ last' = NoCall

\* sp.buff.Write, first half: b.buf = b.buf[:l+n], m = l.  The n new places still
\* hold whatever the backing array held.
R_Reslice(s) ==
    /\ ~crashed /\ rpc[s] = "reslice"
    /\ rm' = [rm EXCEPT ![s] = blen]
    /\ blen' = blen + Len(rbuf[s])
    /\ rpc' = [rpc EXCEPT ![s] = "copy"]
    /\ UNCHANGED <<spVars, sendVars, eol, arr, off, closeVars, rbuf, rch, asmVars, pollVars,
                   selVars, crashed, histVars, waitGhost>>
    /\ last' = NoCall

\* sp.buff.Write, second half: copy(b.buf[m:], p).  b.buf[m:] panics when the
\* buffer was reset in between and is now shorter than m.
R_Copy(s) ==
    /\ ~crashed /\ rpc[s] = "copy"
    /\ IF rm[s] > blen
       THEN /\ crashed' = TRUE
            /\ rpc' = [rpc EXCEPT ![s] = "panic"]
            /\ arr' = arr
       ELSE /\ arr' = CopyAt(arr, rm[s], blen, rbuf[s])
            /\ rpc' = [rpc EXCEPT ![s] = "range"]
            /\ crashed' = crashed
    /\ rm' = [rm EXCEPT ![s] = 0]
    /\ UNCHANGED <<spVars, sendVars, eol, blen, off, closeVars, rbuf, rch, asmVars, pollVars,
                   selVars, histVars, waitGhost>>
    /\ last' = NoCall

\* for _, b := range rxBuff[:n] { if sp.portIsOpen {      (rbuf: the bytes still to relay)
R_Range(s) ==
    /\ ~crashed /\ rpc[s] = "range"
    /\ IF rbuf[s] = <<>>
       THEN /\ rpc' = [rpc EXCEPT ![s] = "loop"]
            /\ rbuf' = rbuf
       ELSE IF portIsOpen
            THEN /\ rpc' = [rpc EXCEPT ![s] = "send"]
                 /\ rbuf' = rbuf
            ELSE /\ rbuf' = [rbuf EXCEPT ![s] = Tail(@)]
                 /\ rpc' = rpc
    /\ UNCHANGED <<spVars, sendVars, eol, bufVars, closeVars, rm, rch, asmVars, pollVars,
                   selVars, crashed, histVars, waitGhost>>
    /\ last' = NoCall

\* sp.rxChar <- b: panics on a closed channel, hands the byte to an assembler
\* waiting on that channel, or blocks.
R_Send(s) ==
    /\ ~crashed /\ rpc[s] = "send"
    /\ IF chanClosed[rxChar] > 0
       THEN /\ crashed' = TRUE
            /\ rpc' = [rpc EXCEPT ![s] = "sendPanic"]
            /\ UNCHANGED <<rbuf, rch, asmVars>>
       ELSE IF \E a \in Sessions : apc[a] = "recv" /\ ach[a] = rxChar
            THEN \E a \in Sessions :
                 /\ apc[a] = "recv" /\ ach[a] = rxChar
                 /\ apc' = [apc EXCEPT ![a] = "chk"]
                 /\ ach' = [ach EXCEPT ![a] = 0]
                 /\ rbuf' = [rbuf EXCEPT ![s] = Tail(@)]
                 /\ rpc' = [rpc EXCEPT ![s] = "range"]
                 /\ UNCHANGED <<rch, crashed>>
            ELSE /\ rpc' = [rpc EXCEPT ![s] = "blocked"]
                 /\ rch' = [rch EXCEPT ![s] = rxChar]
                 /\ UNCHANGED <<rbuf, asmVars, crashed>>
    /\ UNCHANGED <<spVars, sendVars, eol, bufVars, closeVars, rm, pollVars,
                   selVars, histVars, waitGhost>>
    /\ last' = NoCall

\* A sender blocked on a channel that close() then closed wakes up and panics.
R_Panic(s) ==
    /\ ~crashed /\ rpc[s] = "blocked" /\ chanClosed[rch[s]] > 0
    /\ crashed' = TRUE
    /\ rpc' = [rpc EXCEPT ![s] = "sendPanic"]
    /\ UNCHANGED <<spVars, sendVars, eol, bufVars, closeVars, rbuf, rm, rch, asmVars, pollVars,
                   selVars, histVars, waitGhost>>
    /\ last' = NoCall

readSerialPort(s) ==
    R_Read(s) \/ R_Reslice(s) \/ R_Copy(s) \/ R_Range(s) \/ R_Send(s) \/ R_Panic(s)

\* ------------------------------------------------------ processSerialPort
\* if sp.portIsOpen { lastRxByte = <-sp.rxChar ... } else { break }
\* screenBuff and lastRxByte are locals nothing else reads; only the receive is kept.
A_Chk(a) ==
    /\ ~crashed /\ apc[a] = "chk"
    /\ IF ~portIsOpen
       THEN /\ apc' = [apc EXCEPT ![a] = "done"]
            /\ UNCHANGED <<ach, rpc, rbuf, rch>>
       ELSE IF chanClosed[rxChar] > 0
            THEN UNCHANGED <<apc, ach, rpc, rbuf, rch>>
            ELSE IF \E s \in Sessions : rpc[s] = "blocked" /\ rch[s] = rxChar
                 THEN \E s \in Sessions :
                      /\ rpc[s] = "blocked" /\ rch[s] = rxChar
                      /\ rbuf' = [rbuf EXCEPT ![s] = Tail(@)]
                      /\ rpc' = [rpc EXCEPT ![s] = "range"]
                      /\ rch' = [rch EXCEPT ![s] = 0]
                      /\ UNCHANGED <<apc, ach>>
                 ELSE /\ apc' = [apc EXCEPT ![a] = "recv"]
                      /\ ach' = [ach EXCEPT ![a] = rxChar]
                      /\ UNCHANGED <<rpc, rbuf, rch>>
    /\ UNCHANGED <<spVars, sendVars, eol, bufVars, closeVars, rm, pollVars,
                   selVars, crashed, histVars, waitGhost>>
    /\ last' = NoCall

\* A receive pending on a channel that close() then closed yields the zero byte.
A_RecvClosed(a) ==
    /\ ~crashed /\ apc[a] = "recv" /\ chanClosed[ach[a]] > 0
    /\ apc' = [apc EXCEPT ![a] = "chk"]
    /\ ach' = [ach EXCEPT ![a] = 0]
    /\ UNCHANGED <<spVars, sendVars, eol, bufVars, closeVars, readerVars, pollVars,
                   selVars, crashed, histVars, waitGhost>>
    /\ last' = NoCall

processSerialPort(a) == A_Chk(a) \/ A_RecvClosed(a)

\* ------------------------------------------------- Write / Print / Println / Printf
othersThanLast ==
    <<spVars, sendVars, eol, bufVars, closeVars, readerVars, asmVars, pollVars, selVars,
      crashed, histVars, waitGhost>>

\* sp.port.Write(data) answers n and an error of its own choosing.
Write(data) ==
    /\ Idle
    /\ UNCHANGED othersThanLast
    /\ IF portIsOpen
       THEN \E e \in {"", "TransportError"} :
            last' = [Call("Write") EXCEPT !.tx = <<data>>, !.txerr = e, !.err = e,
                                          !.n = IF e = "" THEN Len(data) ELSE 0, !.kept = Kept]
       ELSE last' = [Call("Write") EXCEPT !.err = "PortNotOpen", !.kept = Kept]

\* Print (PrintStr here) drops what sp.port.Write returns.
PrintAs(opName, str) ==
    /\ Idle
    /\ UNCHANGED othersThanLast
    /\ IF portIsOpen
       THEN \E e \in {"", "TransportError"} :
            last' = [Call(opName) EXCEPT !.tx = <<str>>, !.txerr = e, !.kept = Kept]
       ELSE last' = [Call(opName) EXCEPT !.err = "PortNotOpen", !.kept = Kept]

PrintStr(str) == PrintAs("Print", str)

Println(str) == PrintAs("Println", str \o <<13, 10>>)

Printf(c) ==
    PrintAs("Printf", IF Len(c.args) > 0 THEN Sprintf(c.format, c.args) ELSE c.format)

\* ---------------------------------------------------------------- SendFile
\* The slice of the file the loop body picks, as its bounds file[lo:hi].
Data(size, done) ==
    IF size - done > q
    THEN [lo |-> done, hi |-> done + q]
    ELSE [lo |-> done, hi |-> size]

\* ioutil.ReadFile either fails, and SendFile returns its error, or gives the file.
S_ReadFile ==
    /\ Idle
    /\ UNCHANGED <<spVars, eol, bufVars, closeVars, readerVars, asmVars, pollVars,
                   curWait, timerFired, crashed, histVars, waitGhost>>
    /\ \/ /\ last' = [Call("SendFile") EXCEPT !.err = "ReadFileError", !.kept = Kept]
          /\ UNCHANGED <<mainPc, sendVars>>
       \/ \E size \in FileSizes :
          /\ fileSize' = size /\ sentBytes' = 0 /\ sent' = <<>>
          /\ mainPc' = "sendFile"
          /\ last' = NoCall

\* One turn of for sentBytes <= fileSize: the write, then return on its error or
\* sentBytes += q; after the loop, return nil.  sp.portIsOpen is never looked at:
\* on a handle that was never opened sp.port is nil and the call panics.
S_Loop ==
    /\ mainPc = "sendFile" /\ ~crashed
    /\ UNCHANGED <<spVars, eol, bufVars, closeVars, readerVars, asmVars, pollVars,
                   curWait, timerFired, histVars, waitGhost, fileSize>>
    /\ IF sentBytes <= fileSize
       THEN IF port = 0
            THEN /\ crashed' = TRUE /\ mainPc' = "sendPanic"
                 /\ last' = NoCall
                 /\ UNCHANGED <<sentBytes, sent>>
            ELSE \E e \in {"", "TransportError"} :
                 /\ portClosed[port] > 0 => e # ""
                 /\ sent' = Append(sent, [lo |-> Data(fileSize, sentBytes).lo, hi |-> Data(fileSize, sentBytes).hi, err |-> e])
                 /\ UNCHANGED crashed
                 /\ IF e # ""
                    THEN /\ mainPc' = "idle"
                         /\ last' = [Call("SendFile") EXCEPT !.err = e, !.txerr = e]
                         /\ UNCHANGED sentBytes
                    ELSE /\ sentBytes' = sentBytes + q
                         /\ UNCHANGED mainPc
                         /\ last' = NoCall
       ELSE /\ mainPc' = "idle"
            /\ last' = Call("SendFile")
            /\ UNCHANGED <<sentBytes, sent, crashed>>

SendFile == S_ReadFile \/ S_Loop

\* ------------------------------------------ Read / ReadLine / Available / EOL
\* bytes.Buffer.ReadByte resets the buffer when it finds it empty.
Read ==
    /\ Idle
    /\ UNCHANGED <<spVars, sendVars, eol, closeVars, readerVars, asmVars, pollVars, selVars,
                   crashed, received, waitGhost>>
    /\ raced' = (raced \/ Races)
    /\ IF portIsOpen
       THEN IF blen <= off
            THEN /\ off' = 0 /\ blen' = 0 /\ arr' = arr
                 /\ consumed' = consumed
                 /\ last' = [Call("Read") EXCEPT !.err = "EOF", !.pre = Unread, !.kept = Kept]
            ELSE /\ off' = off + 1 /\ UNCHANGED <<arr, blen>>
                 /\ consumed' = Append(consumed, Unread[1])
                 /\ last' = [Call("Read") EXCEPT !.val = <<Unread[1]>>, !.raw = <<Unread[1]>>,
                                                 !.pre = Unread, !.kept = Kept]
       ELSE /\ UNCHANGED <<bufVars, consumed>>
            /\ last' = [Call("Read") EXCEPT !.err = "PortNotOpen", !.kept = Kept]

ReadLine ==
    /\ Idle
    /\ UNCHANGED <<spVars, sendVars, eol, closeVars, readerVars, asmVars, pollVars, selVars,
                   crashed, received, waitGhost>>
    /\ raced' = (raced \/ Races)
    /\ LET r == ReadLineRes(portIsOpen, Unread, LineDelim(eol))
       IN /\ off' = off + Len(r.raw) /\ UNCHANGED <<arr, blen>>
          /\ consumed' = IF r.err = "" THEN consumed \o r.raw ELSE consumed
          /\ last' = [Call("ReadLine") EXCEPT !.err = r.err, !.val = r.val, !.raw = r.raw,
                                              !.pre = IF portIsOpen THEN Unread ELSE <<>>,
                                              !.kept = Kept]

Available ==
    /\ Idle
    /\ UNCHANGED othersThanLast
    /\ last' = [Call("Available") EXCEPT !.n = blen - off, !.kept = Kept]

EOL(c) ==
    /\ Idle
    /\ eol' = c
    /\ UNCHANGED <<spVars, sendVars, bufVars, closeVars, readerVars, asmVars, pollVars, selVars,
                   crashed, histVars, waitGhost>>
    /\ last' = [Call("EOL") EXCEPT !.kept = Kept]

\* ---------------------------------------------------- WaitForRegexTimeout
\* if sp.portIsOpen { regexp.MustCompile(exp); c1 := make(chan string, 1); go func...;
\* select: the timer of time.After(timeout) is armed here.
WaitStart(p) ==
    /\ Idle
    /\ UNCHANGED <<spVars, sendVars, eol, bufVars, closeVars, readerVars, asmVars, histVars, waitGhost>>
    /\ IF ~portIsOpen
       THEN /\ UNCHANGED <<pollVars, selVars, crashed>>
            /\ last' = [Call("Wait") EXCEPT !.err = "PortNotOpen",
                                          !.spawned = nWaits' - nWaits, !.kept = Kept]
       ELSE IF ~Compiles(p)
            THEN /\ crashed' = TRUE
                 /\ mainPc' = "panic"
                 /\ UNCHANGED <<pollVars, curWait, timerFired>>
                 /\ last' = NoCall
            ELSE /\ nWaits < lim.waits
                 /\ nWaits' = nWaits + 1
                 /\ ppc' = [ppc EXCEPT ![nWaits'] = "chk"]
                 /\ pat' = [pat EXCEPT ![nWaits'] = p]
                 /\ UNCHANGED <<timeExpired, c1, crashed>>
                 /\ mainPc' = "select" /\ curWait' = nWaits' /\ timerFired' = FALSE
                 /\ last' = NoCall

\* The timer's channel becomes ready.
TimerFire ==
    /\ ~crashed /\ mainPc = "select" /\ ~timerFired
    /\ timerFired' = TRUE
    /\ dataFirst' = (c1[curWait] # <<>>)
    /\ UNCHANGED <<spVars, sendVars, eol, bufVars, closeVars, readerVars, asmVars, pollVars, mainPc,
                   curWait, crashed, histVars, plines, wdropped, pollsAfter>>
    /\ last' = NoCall

\* The channel the select of this call receives from: the c1 the call made.
SelChan == curWait

\* case data := <-c1: return data, nil
SelectData ==
    /\ ~crashed /\ mainPc = "select" /\ c1[SelChan] # <<>>
    /\ c1' = [c1 EXCEPT ![SelChan] = Tail(@)]
    /\ mainPc' = "idle" /\ curWait' = 0 /\ timerFired' = FALSE
    /\ plines' = <<>> /\ wdropped' = <<>> /\ dataFirst' = FALSE
    /\ UNCHANGED <<spVars, sendVars, eol, bufVars, closeVars, readerVars, asmVars, nWaits, ppc, pat,
                   timeExpired, crashed, histVars, pollsAfter>>
    /\ last' = [Call("Wait") EXCEPT !.val = Head(c1[SelChan]), !.src = SelChan,
                                  !.lines = plines, !.dropped = wdropped,
                                  !.fired = timerFired, !.dataFirst = dataFirst,
                                  !.kept = Kept]

\* case <-time.After(timeout): timeExpired = true; return "", "Timeout expired"
SelectTimeout ==
    /\ ~crashed /\ mainPc = "select" /\ timerFired
    /\ timeExpired' = [timeExpired EXCEPT ![curWait] = TRUE]
    /\ mainPc' = "idle" /\ curWait' = 0 /\ timerFired' = FALSE
    /\ plines' = <<>> /\ wdropped' = <<>> /\ dataFirst' = FALSE
    /\ UNCHANGED <<spVars, sendVars, eol, bufVars, closeVars, readerVars, asmVars, nWaits, ppc, pat,
                   c1, crashed, histVars, pollsAfter>>
    /\ last' = [Call("Wait") EXCEPT !.err = "Timeout", !.src = curWait,
                                  !.lines = plines, !.dropped = wdropped,
                                  !.fired = timerFired, !.dataFirst = dataFirst,
                                  !.kept = Kept]

\* A poller that does not look at timeExpired.
C9_PollerIgnoresFlag(expired) == TRUE

\* A poller whose loop condition has no way to become false.
C18_PollerNeverStops(expired) == TRUE

PollerContinues(expired) == ~expired

\* for !timeExpired {
P_Chk(w) ==
    /\ ~crashed /\ ppc[w] = "chk"
    /\ IF PollerContinues(timeExpired[w])
       THEN /\ ppc' = [ppc EXCEPT ![w] = "read"]
            /\ UNCHANGED <<pat, pollsAfter>>
       ELSE /\ ppc' = [ppc EXCEPT ![w] = "done"]
            /\ UNCHANGED <<pat, pollsAfter>>
    /\ UNCHANGED <<spVars, sendVars, eol, bufVars, closeVars, readerVars, asmVars, nWaits,
                   timeExpired, c1, selVars, crashed, histVars, plines, wdropped, dataFirst>>
    /\ last' = NoCall

\* line, err := sp.ReadLine(); on a line with a match: c1 <- result[0]; break.
\* c1 has one slot and this is the goroutine's only send, so the send never blocks.
\* pollsAfter[w] counts, up to 2, the ReadLine calls made after timeExpired was set;
\* plines and wdropped are what the call still pending has read and has discarded.
P_Read(w) ==
    /\ ~crashed /\ ppc[w] = "read"
    /\ LET r == ReadLineRes(portIsOpen, Unread, LineDelim(eol))
           m == FindAllString(pat[w], r.val)
           hit == r.err = "" /\ Len(m) > 0
           pending == ~timeExpired[w]
       IN /\ off' = off + Len(r.raw) /\ UNCHANGED <<arr, blen>>
          /\ consumed' = IF r.err = "" THEN consumed \o r.raw ELSE consumed
          /\ plines' = IF pending /\ r.err = "" THEN Append(plines, r.val) ELSE plines
          /\ wdropped' = IF pending /\ r.err # "" THEN wdropped \o r.raw ELSE wdropped
          /\ c1' = IF hit THEN [c1 EXCEPT ![w] = Append(@, m[1])] ELSE c1
          /\ ppc' = [ppc EXCEPT ![w] = IF hit THEN "done" ELSE "chk"]
          /\ pat' = pat
          /\ pollsAfter' = IF timeExpired[w]
                           THEN [pollsAfter EXCEPT ![w] = IF @ < 2 THEN @ + 1 ELSE @]
                           ELSE pollsAfter
    /\ raced' = (raced \/ Races)
    /\ UNCHANGED <<spVars, sendVars, eol, closeVars, readerVars, asmVars, nWaits, timeExpired,
                   selVars, crashed, received, dataFirst>>
    /\ last' = NoCall

Poller(w) == P_Chk(w) \/ P_Read(w)

\* ------------------------------------------------------------------ Next
Background ==
    \/ \E s \in Sessions : readSerialPort(s)
    \/ \E a \in Sessions : processSerialPort(a)

Lifecycle == (\E args \in PortArgs : Open(args)) \/ Close

Writes ==
    \/ \E d \in Datas : Write(d) \/ PrintStr(d) \/ Println(d)
    \/ \E c \in PrintfCalls : Printf(c)

Waiting ==
    \/ \E p \in Patterns : WaitStart(p)
    \/ TimerFire \/ SelectData \/ SelectTimeout
    \/ \E w \in Waits : Poller(w)

Next ==
    \/ Lifecycle \/ Background \/ Writes \/ Waiting
    \/ Read \/ ReadLine \/ Available
    \/ \E c \in EolBytes : EOL(c)
    \/ SendFile

Spec == Init /\ [][Next]_vars

\* The caller reads and reconfigures the buffer while the reader fills it.
NextBuf ==
    \/ Lifecycle \/ Background
    \/ Read \/ ReadLine \/ Available
    \/ \E c \in EolBytes : EOL(c)

SpecBuf == InitWith(BufOpens, 0, BufRecv) /\ [][NextBuf]_vars

\* The caller opens, closes, writes and reads; a wait is only tried, never entered.
NextApi ==
    \/ Lifecycle \/ Background \/ Writes
    \/ Read \/ ReadLine
    \/ \E p \in Patterns : WaitStart(p)

SpecApi == InitWith(ApiOpens, 0, ApiRecv) /\ [][NextApi]_vars

\* The caller waits for patterns, and reads lines between the waits.
NextWait ==
    \/ Lifecycle \/ Background \/ Waiting
    \/ ReadLine

SpecWait == InitWith(WaitOpens, WaitWaits, WaitRecv) /\ [][NextWait]_vars

\* The caller closes and opens the handle again while the goroutines of the earlier
\* session are still there.
NextReopen == Lifecycle \/ Background

SpecReopen == InitWith(ReOpens, 0, ReRecv) /\ [][NextReopen]_vars

\* The caller opens and closes the handle and sends files through it.
NextSend == Lifecycle \/ SendFile

SpecSend == InitWith(SendOpens, 0, 0) /\ [][NextSend]_vars

\* Every goroutine that can take a step takes one in the end: the scheduler is fair
\* and a transport read returns within its timeout.
FairGoroutines ==
    /\ \A s \in Sessions : WF_vars(readSerialPort(s))
    /\ \A a \in Sessions : WF_vars(processSerialPort(a))

\* One session, opened and closed by the caller, under a fair scheduler.
FairClose == InitWith(CloseOpens, 0, CloseRecv) /\ [][NextReopen]_vars /\ FairGoroutines

\* The waits of one session under a fair scheduler: every goroutine that can take a
\* step takes one, the timer of time.After fires, and a select with a ready case
\* proceeds.
FairWait ==
    /\ InitWith(LiveOpens, LiveWaits, LiveRecv) /\ [][NextWait]_vars
    /\ FairGoroutines
    /\ \A w \in Waits : WF_vars(Poller(w))
    /\ WF_vars(TimerFire)
    /\ WF_vars(SelectData \/ SelectTimeout)

\* ================================================================ properties
\* The call just made was ReadLine on an open handle, with the buffer at rest.
ReadLineDone == last.op = "ReadLine" /\ last.open /\ NoWriteInFlight

\* C1: the bytes taken out by the successful Read and ReadLine calls of a session, in
\* the order the calls completed, are a prefix of the bytes the transport delivered in
\* that session, also when no read ever met a half-done Write.  Violated: a ReadLine
\* that fails takes the buffered bytes with it.
C1_ConsumedIsPrefix == ~raced => IsPrefix(consumed, received)

\* C2: a ReadLine on an open handle whose buffer holds no end-of-line byte fails and
\* takes nothing out of the buffer.  Violated: it fails, and empties the buffer.
C2_FailedReadLineConsumesNothing ==
    (ReadLineDone /\ last.eolAt \notin Range(last.pre)) =>
        /\ last.err # ""
        /\ last.raw = <<>>
        /\ Unread = last.pre

\* C3: with the default delimiter, a ReadLine on a buffer holding a newline returns the
\* bytes before the first newline without the carriage returns, takes out those bytes
\* and the newline and leaves the rest; on a buffer without a newline it fails and
\* leaves the buffer as it was.  Violated in its second half.
C3_DefaultDelimiterLine ==
    (ReadLineDone /\ last.eolAt = EOL_DEFAULT) =>
        LET i == IndexByte(last.pre, EOL_DEFAULT)
        IN IF i > 0
           THEN /\ last.err = ""
                /\ last.val = SelectSeq(SubSeq(last.pre, 1, i - 1), LAMBDA b : b # 13)
                /\ last.raw = SubSeq(last.pre, 1, i)
                /\ Unread = SubSeq(last.pre, i + 1, Len(last.pre))
           ELSE /\ last.err # ""
                /\ Unread = last.pre

\* C4: whatever byte EOL() configured, the text of a successful ReadLine is the line
\* taken out of the buffer without that byte and without carriage returns, and with
\* every other byte.  Violated: only '\r' and '\n' are ever stripped.
C4_ConfiguredEolStripped ==
    (ReadLineDone /\ last.err = "") =>
        last.val = SelectSeq(last.raw, LAMBDA b : b # last.eolAt /\ b # 13)

\* C5: on a closed handle Write, Print, Println, Printf, Read, ReadLine and
\* WaitForRegexTimeout fail with "Serial port is not open", call nothing on the transport,
\* take no byte out of the buffer and start no polling goroutine.
C5_ClosedHandleCallsFail ==
    (last.op \in {"Write", "Print", "Println", "Printf", "Read", "ReadLine", "Wait"}
        /\ ~last.open) =>
        /\ last.err = "PortNotOpen"
        /\ last.tx = <<>>
        /\ last.raw = <<>>
        /\ last.spawned = 0
        /\ last.kept

\* A ReadLine just failed on a handle that was closed with a byte still unread.
C5_Witness ==
    /\ last.op = "ReadLine" /\ ~last.open /\ last.err = "PortNotOpen"
    /\ nOpens > 0 /\ Unread # <<>>

\* C6: Open on an open handle fails with "... is already open" and leaves the transport,
\* the channel, the unread bytes, name and baud as they were and starts no goroutine.
C6_OpenOnOpenHandle ==
    (last.op = "Open" /\ last.open) => (last.err = "AlreadyOpen" /\ last.kept)

\* Open was just refused on an open handle that holds unread bytes.
C6_Witness ==
    /\ last.op = "Open" /\ last.open /\ last.err = "AlreadyOpen"
    /\ portIsOpen /\ Unread # <<>>

\* Session s has been ended by Close.
Ended(s) == s < nOpens \/ (s = nOpens /\ ~portIsOpen)

\* C7: Close on an open handle clears the open flag, closes the channel and the
\* transport and returns the transport's error; on a closed handle it returns nil and
\* changes nothing; it never panics; and the channel and the transport of every session
\* are closed once when the session has ended and not at all before.
C7_CloseIdempotent ==
    /\ mainPc # "closePanic"
    /\ \A s \in Sessions :
          /\ chanClosed[s] = (IF s <= nOpens /\ Ended(s) THEN 1 ELSE 0)
          /\ portClosed[s] = (IF s <= nOpens /\ Ended(s) THEN 1 ELSE 0)
    /\ last.op = "Close" =>
          IF last.open
          THEN ~portIsOpen /\ last.err = last.txerr
          ELSE last.err = "" /\ last.kept

\* Close was just called on a handle that an earlier Close had closed.
C7_Witness ==
    /\ last.op = "Close" /\ ~last.open /\ last.err = ""
    /\ nOpens > 0 /\ chanClosed[nOpens] = 1 /\ portClosed[nOpens] = 1

\* The lines among those read that hold a match of the pattern of call w.
MatchLines(w, lines) == SelectSeq(lines, LAMBDA l : FindAllString(pat[w], l) # <<>>)

\* C8: every WaitForRegexTimeout call on an open handle returns; it returns the match
\* when the match was delivered before the timer fired and "Timeout expired" when the
\* timer fired first; the match is the first match of the first line read that has one.
\* Violated: a pattern that does not compile panics, and a select that finds both
\* channels ready picks either.
C8_WaitOutcome ==
    /\ mainPc # "panic"
    /\ (last.op = "Wait" /\ last.open) =>
          /\ last.err \in {"", "Timeout"}
          /\ last.err = "Timeout" <=> (last.fired /\ ~last.dataFirst)
          /\ last.err = "" =>
                /\ MatchLines(last.src, last.lines) # <<>>
                /\ last.val = FindAllString(pat[last.src],
                                            Head(MatchLines(last.src, last.lines)))[1]

\* C9: once a call has returned "Timeout expired" its poller makes at most one more
\* ReadLine, and a match a call returns comes from that call's own channel, never from
\* a call that timed out.
C9_AfterTimeout ==
    /\ \A w \in Waits : pollsAfter[w] <= 1
    /\ (last.op = "Wait" /\ last.err = "") => ~timeExpired[last.src]

\* A later call has just returned while the match the first call's poller found in its
\* one ReadLine after the time-out still sits in that call's channel.
C9_Witness ==
    /\ timeExpired[1] /\ pollsAfter[1] = 1 /\ ppc[1] = "done" /\ c1[1] # <<>>
    /\ last.op = "Wait" /\ last.src = 2

\* C10: when WaitForRegexTimeout returns, its poller has taken out of the buffer only
\* the terminated lines it read, also when no read met a half-done Write.  Violated: the poller's failed ReadLine calls take the
\* unterminated bytes with them.
C10_WaitConsumesWholeLines ==
    (last.op = "Wait" /\ last.open /\ ~raced) => last.dropped = <<>>

\* C11: on an open handle Write, Print, Println and Printf call the transport's Write
\* once and, when it fails, return its error.  Violated: Print drops what the
\* transport's Write returns and answers nil, and Println and Printf go through Print.
C11_WriteErrorsSurfaced ==
    (last.op \in {"Write", "Print", "Println", "Printf"} /\ last.open) =>
        /\ Len(last.tx) = 1
        /\ last.txerr # "" => last.err = last.txerr

\* C12: a ReadLine on an open handle splits on the byte EOL() set last before the call
\* and on no other: it takes out the buffered bytes up to the first occurrence of that
\* byte, and fails when the buffer holds none, whatever the delimiter was when the
\* bytes arrived.
C12_EolAtCallTime ==
    (last.op = "ReadLine" /\ last.open) =>
        LET i == IndexByte(last.pre, last.eolAt)
        IN IF i > 0
           THEN last.err = "" /\ last.raw = SubSeq(last.pre, 1, i)
           ELSE last.err # ""

\* After EOL('a') a ReadLine took "\na" out as one line: the '\n' no longer splits.
C12_Witness ==
    /\ last.op = "ReadLine" /\ last.open /\ last.eolAt = 97
    /\ last.err = "" /\ last.raw = <<10, 97>>

\* C13: readSerialPort never sends, nor stays blocked in a send, on a channel that
\* Close has closed: the panic of a send on a closed channel is unreachable.
\* Violated: Close can run between the test of sp.portIsOpen and the send.
C13_NoSendOnClosedChannel ==
    \A s \in Sessions :
        /\ rpc[s] # "sendPanic"
        /\ rpc[s] = "blocked" => chanClosed[rch[s]] = 0

\* The readSerialPort / processSerialPort goroutines that have not returned.
ReadersAlive == { s \in Sessions : rpc[s] \in {"loop", "reslice", "copy", "range", "send", "blocked"} }

AssemblersAlive == { a \in Sessions : apc[a] \in {"chk", "recv"} }

\* C14: while the process runs, at most one readSerialPort and at most one
\* processSerialPort goroutine are alive, and exactly one of each while the handle is
\* open.  Violated: the goroutines of a closed session that have not yet looked at
\* sp.portIsOpen find it set again by the next Open and go on, beside the new ones.
C14_OneReaderOneAssembler ==
    ~crashed =>
        /\ Cardinality(ReadersAlive) <= 1
        /\ Cardinality(AssemblersAlive) <= 1
        /\ portIsOpen => (Cardinality(ReadersAlive) = 1 /\ Cardinality(AssemblersAlive) = 1)

\* C15: once Close has closed an open handle then, unless the handle is opened again,
\* the readSerialPort and processSerialPort goroutines both return in the end.
\* Violated: a readSerialPort that is in, or about to enter, its send when Close runs
\* does not return: it panics (C13), and the process ends with it.
C15_GoroutinesReturnAfterClose ==
    [](( nOpens > 0 /\ ~portIsOpen ) =>
         <>( portIsOpen \/ (ReadersAlive = {} /\ AssemblersAlive = {} /\ ~crashed) ))

\* C16: sp.buff is synchronised: no Read, ReadLine or poller reads the buffer while a
\* readSerialPort is inside sp.buff.Write, so every byte a read hands out is a byte
\* the transport delivered.  Violated: nothing guards the bytes.Buffer, and a read
\* between the two halves of Write hands out what the backing array held before.
C16_BufferSynchronized ==
    /\ ~raced
    /\ (last.op \in {"Read", "ReadLine"} /\ last.open) => Range(last.raw) \subseteq Range(received)

\* s is a run of consecutive elements of t.
IsSegment(s, t) ==
    \E i \in 0..Len(t) : i + Len(s) <= Len(t) /\ s = SubSeq(t, i + 1, i + Len(s))

\* C17: while the handle is open and no Write is half done, the unread bytes are bytes
\* the transport of this session delivered, in the order it delivered them: nothing of
\* the buffer's first contents or of an earlier session is among them.  Violated: a
\* readSerialPort left over from the earlier session (C14) writes the bytes it read
\* before Close into the buffer that Open has reset.
C17_OnlyThisSessionsBytes ==
    (portIsOpen /\ NoWriteInFlight /\ ~crashed) => IsSegment(Unread, received)

\* The polling goroutines that have not returned.
PollersAlive == { w \in Waits : ppc[w] \in {"chk", "read"} }

\* C18: the polling goroutines all end, each by its send of one match or by finding
\* timeExpired set, unless a panic elsewhere has ended the process before; and c1 never
\* holds more than its one slot, so the goroutine's send never blocks, also after the
\* caller has returned "Timeout expired".
C18_PollerTerminates ==
    /\ [](\A w \in Waits : Len(c1[w]) <= 1)
    /\ [](PollersAlive # {} => <>(PollersAlive = {} \/ crashed))

\* A poller has ended by sending its match after the caller had returned "Timeout
\* expired": the match sits in c1 and the send did not block.
C18_Witness ==
    \E w \in Waits :
        /\ ppc[w] = "done" /\ timeExpired[w] /\ Len(c1[w]) = 1
        /\ mainPc = "idle" /\ ~crashed

\* C19: an Open that fails in openPort returns an error and leaves the handle as it
\* was: closed, with the name, baud, transport, channel, goroutines and unread bytes it
\* had; and an Open that succeeds is still possible afterwards.
C19_FailedOpenChangesNothing ==
    (last.op = "Open" /\ last.err = "OpenError") =>
        /\ ~last.open /\ ~portIsOpen
        /\ last.kept
        /\ nOpens < lim.opens => ENABLED (\E args \in PortArgs : Open(args) /\ portIsOpen')

\* Open has just failed on a handle that was closed after a session, with a byte of
\* that session still unread.
C19_Witness ==
    /\ last.op = "Open" /\ last.err = "OpenError"
    /\ nOpens > 0 /\ name # "" /\ Unread # <<>>

\* ceil(size / q): the writes a file of that size takes.
Blocks(size) == (size + q - 1) \div q

\* C20: For every file size, 0 and the exact multiples of 512 included, every
\* transport write SendFile issues carries at most 512 bytes and at least one, the
\* chunks written are the file's bytes in order with each byte written once, a
\* call that returns nil has issued exactly ceil(size/512) writes, and the first
\* failing write ends the call with that error.
C20_SendFileChunks ==
    (mainPc = "sendFile" \/ (last.op = "SendFile" /\ last.err # "ReadFileError")) =>
        /\ \A i \in 1..Len(sent) :
              /\ sent[i].hi - sent[i].lo <= q
              /\ sent[i].hi > sent[i].lo
              /\ sent[i].lo = (IF i = 1 THEN 0 ELSE sent[i - 1].hi)
              /\ sent[i].hi <= fileSize
              /\ i < Len(sent) => sent[i].err = ""
        /\ Len(sent) <= Blocks(fileSize)
        /\ (last.op = "SendFile" /\ last.err = "") =>
              /\ Len(sent) = Blocks(fileSize)
              /\ \A i \in 1..Len(sent) : sent[i].err = ""
              /\ fileSize > 0 => sent[Len(sent)].hi = fileSize
        /\ (last.op = "SendFile" /\ last.err # "") =>
              /\ sent # <<>>
              /\ sent[Len(sent)].err = last.err

====
